---- MODULE Spec2Model ----
(***************************************************************************)
(* A model of the polynomial engine of symba (src/src/lib.rs): the types   *)
(* Poly / PolyTerm / PolyVar, the canonicalizer Poly::simplify, and the    *)
(* operations substitute, differentiate, integrate, neg, add, sub and mul. *)
(*                                                                         *)
(* A PolyVar is a record [sym, deg], a PolyTerm a record [coeff, vars]     *)
(* whose vars is a sequence of PolyVar, a Poly a sequence of PolyTerm.     *)
(* A coefficient (f64 in the source) is an exact fraction [num, den] in    *)
(* lowest terms with den > 0: the model covers the range in which the f64  *)
(* arithmetic of the source is exact.                                      *)
(*                                                                         *)
(* The two HashMaps of simplify are iterated in an order the standard      *)
(* library does not fix (RandomState): every order is a possible outcome,  *)
(* so simplify is a relation, modelled as the set of its outcomes.         *)
(***************************************************************************)
EXTENDS Integers, Sequences, FiniteSets, TLC

\* ------------------------------------------------------------------ bounds
\* Most terms of a raw input polynomial.
MaxTerms == 2
\* Most variable occurrences in a raw input polynomial, all terms together.
MaxOccur == 2
\* Largest degree of one variable occurrence of a raw input polynomial.
MaxDeg == 1

\* The symbols of the inputs, and String's ordering of them (Ord for String).
Syms == {"x", "y"}
SymRank == [s \in Syms |-> IF s = "x" THEN 1 ELSE 2]

\* The coefficients of the inputs.
Coeffs == {-1, 0, 1}
\* The values substituted for a symbol.
Vals == {0, 2}

\* ------------------------------------------------------- f64 as a fraction
Abs(n) == IF n < 0 THEN -n ELSE n

RECURSIVE GCD(_, _)
GCD(a, b) == IF b = 0 THEN a ELSE GCD(b, a % b)

Frac(n, d) ==
    LET g == GCD(Abs(n), Abs(d))
        s == IF d < 0 THEN -1 ELSE 1
    IN  [num |-> s * (n \div g), den |-> s * (d \div g)]

F(n) == [num |-> n, den |-> 1]

FAdd(a, b) == Frac(a.num * b.den + b.num * a.den, a.den * b.den)
FMul(a, b) == Frac(a.num * b.num, a.den * b.den)
FDiv(a, b) == Frac(a.num * b.den, a.den * b.num)

RECURSIVE Powi(_, _)
Powi(v, n) == IF n = 0 THEN F(1) ELSE FMul(v, Powi(v, n - 1))

\* ------------------------------------------------------------ the data
PolyVar(s, d) == [sym |-> s, deg |-> d]
PolyTerm(c, vs) == [coeff |-> c, vars |-> vs]

RECURSIVE SumDeg(_)
SumDeg(vars) ==
    IF vars = <<>> THEN 0 ELSE Head(vars).deg + SumDeg(Tail(vars))

Reverse(s) == [i \in 1..Len(s) |-> s[Len(s) + 1 - i]]

\* All orders in which a hash map holding the keys S can be iterated.
IterOrders(S) ==
    {f \in [1..Cardinality(S) -> S] : \A i, j \in 1..Cardinality(S) : f[i] = f[j] => i = j}

Elems(s) == {s[i] : i \in 1..Len(s)}

\* slice::sort_by / sort_by_key: a stable sort, here by insertion; key maps
\* every element to the integer it is ordered by.
RECURSIVE InsertBy(_, _, _)
InsertBy(key, e, s) ==
    IF s = <<>> THEN <<e>>
    ELSE IF key[e] < key[Head(s)] THEN <<e>> \o s
    ELSE <<Head(s)>> \o InsertBy(key, e, Tail(s))

RECURSIVE StableSortBy(_, _)
StableSortBy(key, s) ==
    IF s = <<>> THEN <<>>
    ELSE InsertBy(key, s[Len(s)], StableSortBy(key, SubSeq(s, 1, Len(s) - 1)))

\* ------------------------------------------------------------ simplify
\* self.0.retain(|term| term.coeff != 0.)
RetainTerms(terms) == SelectSeq(terms, LAMBDA t : t.coeff.num # 0)

\* A simplify that keeps the zero-degree vars.
RetainVarsAll(vars) == vars

\* term.vars.retain(|var| var.deg != 0)
RetainVars(vars) == SelectSeq(vars, LAMBDA v : v.deg # 0)

\* The HashMap<String, usize> after all vars of a term were popped into it.
RECURSIVE DegOf(_, _)
DegOf(vars, s) ==
    IF vars = <<>> THEN 0
    ELSE (IF vars[Len(vars)].sym = s THEN vars[Len(vars)].deg ELSE 0)
         + DegOf(SubSeq(vars, 1, Len(vars) - 1), s)

\* The vars pushed back by m.drain(), in each order drain can produce.
MergedVars(vars) ==
    LET keys == {vars[i].sym : i \in 1..Len(vars)}
    IN  {[i \in 1..Len(o) |-> PolyVar(o[i], DegOf(vars, o[i]))] : o \in IterOrders(keys)}

\* term.vars.sort_by(|var1, var2| var1.sym.cmp(&var2.sym))
SortVars(vars) == StableSortBy([v \in Elems(vars) |-> SymRank[v.sym]], vars)

\* The vars a term can have after the first four passes of simplify.
TermVars(vars) == {SortVars(m) : m \in MergedVars(RetainVars(vars))}

\* The term lists after the first four passes, one choice per term.
RECURSIVE NormTerms(_)
NormTerms(terms) ==
    IF terms = <<>> THEN {<<>>}
    ELSE {<<PolyTerm(Head(terms).coeff, vs)>> \o rest :
              vs \in TermVars(Head(terms).vars), rest \in NormTerms(Tail(terms))}

\* An entry that is overwritten by each like term instead of added to.
CoeffOfLast(terms, vs) ==
    LET like == {i \in 1..Len(terms) : terms[i].vars = vs}
    IN  IF like = {} THEN F(0)
        ELSE terms[CHOOSE i \in like : \A j \in like : i <= j].coeff

\* The HashMap<Vec<PolyVar>, f64> entry of a key once every term was popped
\* (from the back) and added to it.
RECURSIVE CoeffOf(_, _)
CoeffOf(terms, vs) ==
    IF terms = <<>> THEN F(0)
    ELSE FAdd(CoeffOf(SubSeq(terms, 1, Len(terms) - 1), vs),
              IF terms[Len(terms)].vars = vs THEN terms[Len(terms)].coeff ELSE F(0))

\* The terms pushed back by m.into_iter(), in each order it can produce.
MergedTerms(terms) ==
    LET keys == {terms[i].vars : i \in 1..Len(terms)}
    IN  {[i \in 1..Len(o) |-> PolyTerm(CoeffOf(terms, o[i]), o[i])] : o \in IterOrders(keys)}

\* A sort by total degree that is not reversed.
SortTermsAscending(terms) == StableSortBy([t \in Elems(terms) |-> SumDeg(t.vars)], terms)

\* sort_by_key(total degree) followed by reverse()
SortTerms(terms) == Reverse(StableSortBy([t \in Elems(terms) |-> SumDeg(t.vars)], terms))

\* Poly::simplify: every polynomial the call can leave in self.
Simplify(poly) ==
    {SortTerms(m) : m \in UNION {MergedTerms(n) : n \in NormTerms(RetainTerms(poly))}}

\* ------------------------------------------------------------ substitute
\* An inner loop that stops at the first matching var.
RECURSIVE SubstFirstOnly(_, _, _, _)
SubstFirstOnly(term, i, sym, val) ==
    IF i > Len(term.vars) THEN term
    ELSE IF term.vars[i].sym = sym
         THEN [coeff |-> FMul(term.coeff, Powi(val, term.vars[i].deg)),
               vars |-> [term.vars EXCEPT ![i].deg = 0]]
         ELSE SubstFirstOnly(term, i + 1, sym, val)

\* The inner loop of substitute over the vars of one term, from index i on.
RECURSIVE SubstFrom(_, _, _, _)
SubstFrom(term, i, sym, val) ==
    IF i > Len(term.vars) THEN term
    ELSE IF term.vars[i].sym = sym
         THEN SubstFrom([coeff |-> FMul(term.coeff, Powi(val, term.vars[i].deg)),
                         vars |-> [term.vars EXCEPT ![i].deg = 0]], i + 1, sym, val)
         ELSE SubstFrom(term, i + 1, sym, val)

\* Poly::substitute
Substitute(poly, sym, val) == [i \in 1..Len(poly) |-> SubstFrom(poly[i], 1, sym, val)]

\* ------------------------------------------------- differentiate, integrate
\* term.vars.iter_mut().find(|var| var.sym == sym): the index found, 0 for None.
FindVar(vs, sym) ==
    IF \E i \in 1..Len(vs) : vs[i].sym = sym
    THEN CHOOSE i \in 1..Len(vs) : vs[i].sym = sym /\ \A j \in 1..(i - 1) : vs[j].sym # sym
    ELSE 0

\* A match arm that does not multiply the coefficient by the degree.
DiffCoeffKept(term, sym) ==
    IF \E i \in 1..Len(term.vars) : term.vars[i].sym = sym
    THEN term
    ELSE [term EXCEPT !.coeff = F(0)]

\* The match arm of differentiate up to and including `term.coeff *= var.deg`.
DiffCoeff(term, sym) ==
    LET i == FindVar(term.vars, sym)
    IN  IF i = 0 THEN [term EXCEPT !.coeff = F(0)]
        ELSE [term EXCEPT !.coeff = FMul(term.coeff, F(term.vars[i].deg))]

\* The whole match arm, when `var.deg -= 1` does not underflow.
DiffTerm(term, sym) ==
    LET i == FindVar(term.vars, sym)
    IN  IF i = 0 THEN DiffCoeff(term, sym)
        ELSE [DiffCoeff(term, sym) EXCEPT !.vars[i].deg = @ - 1]

\* `var.deg -= 1` on a usize that is 0: the subtraction overflows.
Underflows(term, sym) ==
    LET i == FindVar(term.vars, sym)
    IN  i # 0 /\ term.vars[i].deg = 0

\* The first term of the loop of differentiate whose decrement underflows.
FirstFault(poly, sym) ==
    IF \E k \in 1..Len(poly) : Underflows(poly[k], sym)
    THEN CHOOSE k \in 1..Len(poly) :
             Underflows(poly[k], sym) /\ \A j \in 1..(k - 1) : ~Underflows(poly[j], sym)
    ELSE 0

\* self at the moment the decrement of term k underflows: the terms before k
\* are differentiated, term k has its coefficient multiplied.
AtFault(poly, sym, k) ==
    [j \in 1..Len(poly) |->
        IF j < k THEN DiffTerm(poly[j], sym)
        ELSE IF j = k THEN DiffCoeff(poly[j], sym)
        ELSE poly[j]]

\* Poly::differentiate: every outcome [poly, err] of the call. err marks the
\* overflowing `var.deg -= 1` (a panic in a debug build, a wrap to usize::MAX
\* in a release build); poly is then self at that instruction.
Differentiate(poly, sym) ==
    UNION {IF FirstFault(m, sym) # 0
           THEN {[poly |-> AtFault(m, sym, FirstFault(m, sym)), err |-> TRUE]}
           ELSE {[poly |-> r, err |-> FALSE] :
                    r \in Simplify([j \in 1..Len(m) |-> DiffTerm(m[j], sym)])}
           : m \in Simplify(poly)}

\* One match arm of integrate.
IntTerm(term, sym) ==
    LET i == FindVar(term.vars, sym)
    IN  IF i = 0 THEN [term EXCEPT !.vars = Append(@, PolyVar(sym, 1))]
        ELSE [coeff |-> FDiv(term.coeff, F(term.vars[i].deg + 1)),
              vars |-> [term.vars EXCEPT ![i].deg = @ + 1]]

\* Poly::integrate: every polynomial the call can leave in self.
Integrate(poly, sym) ==
    UNION {Simplify([j \in 1..Len(m) |-> IntTerm(m[j], sym)]) : m \in Simplify(poly)}

\* ------------------------------------------------------------ arithmetic
\* Add::add and AddAssign::add_assign
Add(a, b) == a \o b

\* Neg::neg
Neg(a) == [i \in 1..Len(a) |-> [a[i] EXCEPT !.coeff = FMul(@, F(-1))]]

\* Sub::sub and SubAssign::sub_assign
Sub(a, b) == a \o Neg(b)

\* Mul::mul for &Poly
Mul(a, b) ==
    [k \in 1..(Len(a) * Len(b)) |->
        LET t1 == a[((k - 1) \div Len(b)) + 1]
            t2 == b[((k - 1) % Len(b)) + 1]
        IN  PolyTerm(FMul(t1.coeff, t2.coeff), t1.vars \o t2.vars)]

\* ------------------------------------------------------------ the inputs
Degs == 0..MaxDeg
RawVar == {PolyVar(s, d) : s \in Syms, d \in Degs}

\* The sum of the first i entries of l.
RECURSIVE SumTo(_, _)
SumTo(l, i) == IF i = 0 THEN 0 ELSE l[i] + SumTo(l, i - 1)

\* The numbers of vars of n terms that have at most k vars together.
Shapes(n, k) == {l \in [1..n -> 0..k] : SumTo(l, n) <= k}

\* The polynomial whose term i has coefficient cs[i] and the next l[i] vars of fv.
Build(l, cs, fv) ==
    [i \in 1..Len(l) |->
        PolyTerm(F(cs[i]), [j \in 1..l[i] |-> fv[SumTo(l, i - 1) + j]])]

\* r is a raw input with at most k variable occurrences: any term order,
\* duplicate symbols inside a term, duplicate terms, zero coefficients and
\* zero degrees included.
Raw(r, k) ==
    \E n \in 0..MaxTerms : \E l \in Shapes(n, k) :
        \E cs \in [1..n -> Coeffs] : \E fv \in [1..SumTo(l, n) -> RawVar] :
            r = Build(l, cs, fv)

\* ------------------------------------------------------------ the state
\* p: the polynomial operated on (self). q: a second polynomial held by the
\* caller. p0: p before the last operation. last, prev: the last operation
\* and the one before it. ops: the operations applied so far. err: a degree
\* decrement has overflowed.
VARIABLES p, q, p0, last, prev, ops, err

vars == <<p, q, p0, last, prev, ops, err>>

Op(name, sym, val) == [op |-> name, sym |-> sym, val |-> val]
NoOp == Op("new", "", F(0))

\* What every operation records besides its effect on p and err.
Record(o) ==
    /\ p0' = p
    /\ last' = o
    /\ prev' = last
    /\ ops' = ops + 1

CallSimplify ==
    /\ \E r \in Simplify(p) : p' = r
    /\ err' = err
    /\ Record(Op("simplify", "", F(0)))

CallSubstitute(sym, val) ==
    /\ p' = Substitute(p, sym, F(val))
    /\ err' = err
    /\ Record(Op("substitute", sym, F(val)))

CallDifferentiate(sym) ==
    /\ \E r \in Differentiate(p, sym) : p' = r.poly /\ err' = r.err
    /\ Record(Op("differentiate", sym, F(0)))

CallIntegrate(sym) ==
    /\ \E r \in Integrate(p, sym) : p' = r
    /\ err' = err
    /\ Record(Op("integrate", sym, F(0)))

\* --------------------- Spec: one operation of impl Poly on a raw polynomial
Init ==
    /\ Raw(p, MaxOccur)
    /\ q = <<>>
    /\ p0 = p
    /\ last = NoOp
    /\ prev = NoOp
    /\ ops = 0
    /\ err = FALSE

DoSimplify == ops = 0 /\ CallSimplify /\ UNCHANGED q

DoSubstitute == ops = 0 /\ UNCHANGED q /\ \E s \in Syms, v \in Vals : CallSubstitute(s, v)

DoDifferentiate == ops = 0 /\ UNCHANGED q /\ \E s \in Syms : CallDifferentiate(s)

DoIntegrate == ops = 0 /\ UNCHANGED q /\ \E s \in Syms : CallIntegrate(s)

Next == DoSimplify \/ DoSubstitute \/ DoDifferentiate \/ DoIntegrate

Spec == Init /\ [][Next]_vars

\* ------- SpecCanon: simplify, a clone kept in q, then simplify again or
\* integrate and differentiate by the same symbol
CanonSimplify == ops = 0 /\ CallSimplify /\ q' = p'

CanonAgain == ops = 1 /\ CallSimplify /\ UNCHANGED q

CanonIntegrate == ops = 1 /\ UNCHANGED q /\ \E s \in Syms : CallIntegrate(s)

CanonDifferentiate ==
    /\ last.op = "integrate"
    /\ ~err
    /\ CallDifferentiate(last.sym)
    /\ UNCHANGED q

NextCanon == CanonSimplify \/ CanonAgain \/ CanonIntegrate \/ CanonDifferentiate

SpecCanon == Init /\ [][NextCanon]_vars

\* ------------------------------------------- the polynomial a Poly denotes
\* The exponent of symbol s in the product denoted by vs.
RECURSIVE Exp(_, _)
Exp(vs, s) ==
    IF vs = <<>> THEN 0
    ELSE (IF Head(vs).sym = s THEN Head(vs).deg ELSE 0) + Exp(Tail(vs), s)

\* The monomial denoted by vs: the exponent of every symbol.
Mono(vs) == [s \in Syms |-> Exp(vs, s)]

\* The coefficient of monomial m in the sum denoted by poly.
RECURSIVE MathCoeff(_, _)
MathCoeff(poly, m) ==
    IF poly = <<>> THEN F(0)
    ELSE FAdd(IF Mono(Head(poly).vars) = m THEN Head(poly).coeff ELSE F(0),
              MathCoeff(Tail(poly), m))

Monos(poly) == {Mono(poly[i].vars) : i \in 1..Len(poly)}

\* a and b denote the same polynomial.
SameMath(a, b) == \A m \in Monos(a) \cup Monos(b) : MathCoeff(a, m) = MathCoeff(b, m)

\* ------- SpecPair: two raw polynomials denoting the same polynomial, each
\* simplified by its own call
InitPair ==
    /\ Raw(p, MaxOccur)
    /\ Raw(q, MaxOccur)
    /\ SameMath(p, q)
    /\ p0 = p
    /\ last = NoOp
    /\ prev = NoOp
    /\ ops = 0
    /\ err = FALSE

PairFirst == ops = 0 /\ CallSimplify /\ UNCHANGED q

PairSecond ==
    /\ ops = 1
    /\ \E r \in Simplify(q) : q' = r
    /\ last' = Op("simplify", "", F(0))
    /\ prev' = last
    /\ ops' = ops + 1
    /\ UNCHANGED <<p, p0, err>>

NextPair == PairFirst \/ PairSecond

SpecPair == InitPair /\ [][NextPair]_vars

\* ------- SpecArith: one arithmetic operator on two operands, then simplify.
\* An operand has one variable occurrence less than the other raw inputs.
InitArith ==
    /\ Raw(p, MaxOccur - 1)
    /\ Raw(q, MaxOccur - 1)
    /\ p0 = p
    /\ last = NoOp
    /\ prev = NoOp
    /\ ops = 0
    /\ err = FALSE

ArithAdd ==
    /\ ops = 0
    /\ p' = Add(p, q)
    /\ Record(Op("add", "", F(0)))
    /\ UNCHANGED <<q, err>>

ArithSub ==
    /\ ops = 0
    /\ p' = Sub(p, q)
    /\ Record(Op("sub", "", F(0)))
    /\ UNCHANGED <<q, err>>

ArithNeg ==
    /\ ops = 0
    /\ p' = Neg(p)
    /\ Record(Op("neg", "", F(0)))
    /\ UNCHANGED <<q, err>>

ArithMul ==
    /\ ops = 0
    /\ p' = Mul(p, q)
    /\ Record(Op("mul", "", F(0)))
    /\ UNCHANGED <<q, err>>

ArithSimplify == ops = 1 /\ CallSimplify /\ UNCHANGED q

NextArith == ArithAdd \/ ArithSub \/ ArithNeg \/ ArithMul \/ ArithSimplify

SpecArith == InitArith /\ [][NextArith]_vars

\* ------------------------------------------------------------ the claims
X(d) == PolyVar("x", d)
Y(d) == PolyVar("y", d)

\* C1: simplify is idempotent: simplify applied to the result of simplify
\* leaves a polynomial equal to that result.
SimplifyIdempotent ==
    (last.op = "simplify" /\ prev.op = "simplify") => p = q

\* C2: after simplify no term has coefficient 0 and no variable has degree 0,
\* also when the zero coefficient comes from like terms that cancel.
ZeroElimination ==
    last.op = "simplify" =>
        \A i \in 1..Len(p) :
            /\ p[i].coeff.num # 0
            /\ \A j \in 1..Len(p[i].vars) : p[i].vars[j].deg # 0

\* C3: two raw polynomials that denote the same polynomial are simplified to
\* equal term sequences, whatever order the hash maps are iterated in.
\* (InitPair draws the two raw inputs so that SameMath holds of them.)
CanonicalUniqueness ==
    ops = 2 => p = q

XPlus1 == <<PolyTerm(F(1), <<X(1)>>), PolyTerm(F(1), <<>>)>>
XMinus1 == <<PolyTerm(F(1), <<X(1)>>), PolyTerm(F(-1), <<>>)>>

\* C4: multiply(x+1, x-1) has 4 terms, and simplify turns it into x^2 - 1:
\* coefficient 1 with vars [x^2], then coefficient -1 with no vars.
MulXPlus1XMinus1 ==
    /\ (last.op = "mul" /\ p0 = XPlus1 /\ q = XMinus1) => Len(p) = 4
    /\ (last.op = "simplify" /\ prev.op = "mul" /\ q = XMinus1
            /\ p0 = <<PolyTerm(F(1), <<X(1), X(1)>>), PolyTerm(F(-1), <<X(1)>>),
                     PolyTerm(F(1), <<X(1)>>), PolyTerm(F(-1), <<>>)>>)
        => p = <<PolyTerm(F(1), <<X(2)>>), PolyTerm(F(-1), <<>>)>>

\* C5: simplify, then integrate(s), then differentiate(s) gives back exactly
\* the result of the simplify.
DiffIntInverse ==
    last.op = "differentiate" => p = q

\* C6: after simplify the total degrees of adjacent terms never increase.
DegreeOrdering ==
    last.op = "simplify" =>
        \A i \in 1..(Len(p) - 1) : SumDeg(p[i].vars) >= SumDeg(p[i + 1].vars)

DegreeOrderingWitness ==
    /\ last.op = "simplify"
    /\ Len(p0) = 2 /\ SumDeg(p0[1].vars) < SumDeg(p0[2].vars)
    /\ Len(p) = 2 /\ SumDeg(p[1].vars) > SumDeg(p[2].vars)

\* C7: after simplify every term's variables are in strictly ascending symbol
\* order with the summed degrees of an input term, no two terms have the same
\* variables, every coefficient is the sum of the coefficients of the input
\* terms of that monomial, and the input terms of one monomial end in one term.
MergeCorrectness ==
    last.op = "simplify" =>
        /\ \A i \in 1..Len(p) : \A j \in 1..(Len(p[i].vars) - 1) :
               SymRank[p[i].vars[j].sym] < SymRank[p[i].vars[j + 1].sym]
        /\ \A i \in 1..Len(p) :
               \E u \in 1..Len(p0) :
                   /\ p0[u].coeff.num # 0
                   /\ \A j \in 1..Len(p[i].vars) :
                          p[i].vars[j].deg = Exp(p0[u].vars, p[i].vars[j].sym)
                   /\ Mono(p[i].vars) = Mono(p0[u].vars)
        /\ \A i, k \in 1..Len(p) : i # k => p[i].vars # p[k].vars
        /\ \A i \in 1..Len(p) : p[i].coeff = MathCoeff(p0, Mono(p[i].vars))
        /\ \A u \in 1..Len(p0) :
               p0[u].coeff.num # 0 =>
                   Cardinality({i \in 1..Len(p) : Mono(p[i].vars) = Mono(p0[u].vars)}) = 1

\* x + x has become the one term 2x.
MergeCorrectnessWitness ==
    /\ last.op = "simplify"
    /\ p0 = <<PolyTerm(F(1), <<X(1)>>), PolyTerm(F(1), <<X(1)>>)>>
    /\ p = <<PolyTerm(F(2), <<X(1)>>)>>

SubstituteFrame ==
    last.op = "substitute" =>
        /\ Len(p) = Len(p0)
        /\ \A i \in 1..Len(p) :
               /\ Len(p[i].vars) = Len(p0[i].vars)
               /\ \A j \in 1..Len(p[i].vars) :
                      /\ p[i].vars[j].sym = p0[i].vars[j].sym
                      /\ p[i].vars[j].deg =
                             IF p0[i].vars[j].sym = last.sym THEN 0 ELSE p0[i].vars[j].deg
               /\ p[i].coeff = FMul(p0[i].coeff, Powi(last.val, Exp(p0[i].vars, last.sym)))
        /\ (\A i \in 1..Len(p0) : Exp(p0[i].vars, last.sym) = 0
                /\ \A j \in 1..Len(p0[i].vars) : p0[i].vars[j].sym # last.sym)
           => p = p0

\* x = 2 in -x + y: the first term becomes -2 * x^0, the second stays.
SubstituteFrameWitness ==
    /\ last = Op("substitute", "x", F(2))
    /\ p0 = <<PolyTerm(F(-1), <<X(1)>>), PolyTerm(F(1), <<Y(1)>>)>>
    /\ p = <<PolyTerm(F(-2), <<X(0)>>), PolyTerm(F(1), <<Y(1)>>)>>

\* C10: `var.deg -= 1` in differentiate never underflows: the matched
\* variable has degree at least 1 whenever it is decremented.
NoDegreeUnderflow ==
    last.op = "differentiate" => ~err

\* differentiate by x ran on an input with a zero-degree x.
NoDegreeUnderflowWitness ==
    /\ last = Op("differentiate", "x", F(0))
    /\ ~err
    /\ p0 = <<PolyTerm(F(1), <<X(0)>>), PolyTerm(F(1), <<X(1)>>)>>
    /\ p = <<PolyTerm(F(1), <<>>)>>
====
